---- MODULE Spec2Model ----
(***************************************************************************)
(* A model of docs_loader.py: main(), AppController.run() and the calls    *)
(* it makes.  Strings are sequences of one-character strings, so that      *)
(* strip(), lower(), endswith(), str() and os.path.join() are computed.    *)
(* Library and remote calls whose code is not in the file (the loaders,    *)
(* the splitter, the HTTP API, the collection) are nondeterministic over   *)
(* the outcomes the calling code can observe: a value or an exception.     *)
(***************************************************************************)
EXTENDS Integers, Sequences, FiniteSets, TLC

VARIABLES
    api_key,           \* os.getenv("JINA_API_KEY"): None, "" or a key
    current_dir,       \* os.path.dirname(__file__)
    pc,                \* the statement main()/run() is at
    embedding_service, \* the JinaAIEmbeddings object, None before construction
    app,               \* the AppController object, None before construction
    store,             \* ChromaDBStore.collection: the records it holds
    chosen_id,         \* choose_file: the stripped answer to the file prompt
    file_path,         \* run: file_path
    loader,            \* run: loader, <<class, path>>
    docs,              \* process: the splitter's output
    texts,             \* run: texts
    metadatas,         \* run: metadatas
    ids,               \* run: ids
    embeddings,        \* run: embeddings
    query,             \* run: query
    query_embedding,   \* run: query_embedding
    results,           \* run: results
    out,               \* the last message printed
    exc,               \* the exception the last step raised, "none" if none
    trace,             \* the ingest calls of the current outer iteration
    qtrace,            \* the calls made for the current query
    effects,           \* the kinds of side effect the process has had so far
    maxStored          \* the largest number of chunks one add_documents stored

vars == <<api_key, current_dir, pc, embedding_service, app, store, chosen_id,
          file_path, loader, docs, texts, metadatas, ids, embeddings, query,
          query_embedding, results, out, exc, trace, qtrace, effects, maxStored>>

\* The largest number of chunks the splitter returns, and of items in one
\* API response.
MaxChunks == 3

\* Python's None: a value no string of the model equals
None == <<"None">>

-----------------------------------------------------------------------------
(* Python string operations *)

Whitespace == {" "}

\* str.lower(), on the letters the model's strings use
LowerChar(c) ==
    CASE c = "Q" -> "q"
      [] c = "B" -> "b"
      [] c = "P" -> "p"
      [] c = "D" -> "d"
      [] c = "F" -> "f"
      [] c = "T" -> "t"
      [] c = "X" -> "x"
      [] OTHER -> c

Lower(s) == [i \in 1..Len(s) |-> LowerChar(s[i])]

\* str.strip()
Strip(s) ==
    LET keep == {i \in 1..Len(s) : s[i] \notin Whitespace}
        lo == CHOOSE i \in keep : \A j \in keep : i <= j
        hi == CHOOSE i \in keep : \A j \in keep : j <= i
    IN IF keep = {} THEN <<>> ELSE SubSeq(s, lo, hi)

\* str.endswith()
EndsWith(s, suffix) ==
    /\ Len(s) >= Len(suffix)
    /\ SubSeq(s, Len(s) - Len(suffix) + 1, Len(s)) = suffix

Digit(d) ==
    CASE d = 0 -> "0" [] d = 1 -> "1" [] d = 2 -> "2" [] d = 3 -> "3"
      [] d = 4 -> "4" [] d = 5 -> "5" [] d = 6 -> "6" [] d = 7 -> "7"
      [] d = 8 -> "8" [] d = 9 -> "9"

\* str(n) for n >= 0
RECURSIVE Str(_)
Str(n) == IF n < 10 THEN <<Digit(n)>> ELSE Str(n \div 10) \o <<Digit(n % 10)>>

\* os.path.join(current_dir, file_name), file_name relative
Join(dir, name) ==
    IF dir = <<>> THEN name
    ELSE IF dir[Len(dir)] = "/" THEN dir \o name
    ELSE dir \o <<"/">> \o name

-----------------------------------------------------------------------------
(* The environment *)

\* The values os.getenv("JINA_API_KEY") can give
ApiKeys == {None, <<>>, <<"k">>}

\* The values os.path.dirname(__file__) can give: "" for a script started by
\* its bare name, else the script's directory
ScriptDirs == {<<>>, <<"/", "a">>}

\* os.listdir(current_dir) with os.path.isfile of each entry
DirListing ==
    << [name |-> <<"a", ".", "t", "x", "t">>, isfile |-> TRUE],
       [name |-> <<"s", "u", "b">>, isfile |-> FALSE],
       [name |-> <<"B", ".", "P", "D", "F">>, isfile |-> TRUE],
       [name |-> <<"c", ".", "d", "o", "c", "x">>, isfile |-> TRUE],
       [name |-> <<"q">>, isfile |-> TRUE],
       [name |-> <<"x", "p", "d", "f">>, isfile |-> TRUE],
       [name |-> <<"n", ".", "T", "x", "t">>, isfile |-> TRUE] >>

\* What the user may type at the file prompt
FileInputs ==
    { <<"q">>, <<"Q">>, <<" ", "q", " ">>, <<>>, <<"1">>, <<"2">>,
      <<" ", "3">>, <<"4">>, <<"5">>, <<"6">>, <<"7", " ">>, <<"9">> }

\* What the user may type at the query prompt
QueryInputs ==
    { <<"q">>, <<" ", "Q">>, <<"Q", " ">>, <<>>, <<" ">>, <<"h", "i">>,
      <<"q", "q">> }

\* The embedding vectors the API may return (lists of numbers)
Vectors == {<<1, 0>>, <<0, 1>>}

\* The exceptions a step may raise: one derived from Exception, or one
\* derived from BaseException only (KeyboardInterrupt, SystemExit)
Raised == {"Exception", "BaseException"}

-----------------------------------------------------------------------------
(* The except clause of run *)

\* The local variables of run and of the functions it calls, unbound.  A
\* local that no later statement reads before it is assigned again is
\* unbound at once (after the store insert, after the display), as it is at
\* the top of each outer iteration.
NoLocals ==
    /\ chosen_id' = None
    /\ file_path' = None
    /\ loader' = None
    /\ docs' = <<>>
    /\ texts' = <<>>
    /\ metadatas' = <<>>
    /\ ids' = <<>>
    /\ embeddings' = <<>>
    /\ query' = None
    /\ query_embedding' = None
    /\ results' = None

\* A faulty variant of Handler: a narrower except clause, which lets the
\* exception leave run()
HandlerNarrow(e) ==
    /\ exc' = e
    /\ pc' = "propagated"
    /\ out' = out

\* A faulty variant of Handler: the except clause around the ingest steps
\* only, so that run falls through to the query loop after the error is
\* printed
HandlerFallThrough(e) ==
    /\ exc' = e
    /\ IF e = "Exception"
       THEN /\ out' = "error"
            /\ pc' = IF pc \in {"get_loader", "process", "embed_documents"}
                     THEN "get_query" ELSE "run_top"
       ELSE pc' = "propagated" /\ out' = out

\* `except Exception as e: print(...)`, then the next `while True` iteration;
\* any other exception leaves run()
Handler(e) ==
    /\ exc' = e
    /\ IF e = "Exception"
       THEN pc' = "run_top" /\ out' = "error"
       ELSE pc' = "propagated" /\ out' = out

-----------------------------------------------------------------------------
Init ==
    /\ api_key \in ApiKeys
    /\ current_dir \in ScriptDirs
    /\ pc = "main"
    /\ embedding_service = None
    /\ app = None
    /\ store = {}
    /\ chosen_id = None
    /\ file_path = None
    /\ loader = None
    /\ docs = <<>>
    /\ texts = <<>>
    /\ metadatas = <<>>
    /\ ids = <<>>
    /\ embeddings = <<>>
    /\ query = None
    /\ query_embedding = None
    /\ results = None
    /\ out = "none"
    /\ exc = "none"
    /\ trace = <<>>
    /\ qtrace = <<>>
    /\ effects = {}
    /\ maxStored = 0

\* A faulty variant of KeyMissing: `if api_key is None`
KeyMissingNoneOnly(k) == k = None

\* `if not api_key`
KeyMissing(k) == k = None \/ k = <<>>

\* main(): the credential check, then the two constructors and app.run()
Main ==
    /\ pc = "main"
    /\ IF KeyMissing(api_key)
       THEN /\ pc' = "aborted"
            /\ UNCHANGED <<embedding_service, app>>
       ELSE /\ embedding_service' = <<"JinaAIEmbeddings", api_key>>
            /\ app' = <<"AppController", <<"JinaAIEmbeddings", api_key>>>>
            /\ pc' = "run_top"
    /\ UNCHANGED <<api_key, current_dir, store, chosen_id, file_path, loader,
                   docs, texts, metadatas, ids, embeddings, query,
                   query_embedding, results, out, exc, trace, qtrace, effects,
                   maxStored>>

\* choose_file: the dict `files`, as the lookup files.get(key)
FilesGet(listing, key) ==
    LET hit == {i \in 1..Len(listing) : listing[i].isfile /\ Str(i) = key}
    IN IF hit = {} THEN None ELSE listing[CHOOSE i \in hit : TRUE].name

\* run: the banner, then choose_file up to its prompt (os.listdir and the
\* printed list)
NewSession ==
    /\ pc = "run_top"
    /\ trace' = <<"choose_file">>
    /\ qtrace' = <<>>
    /\ NoLocals
    /\ IF current_dir = <<>>
       THEN /\ Handler("Exception")
            /\ UNCHANGED effects
       ELSE /\ pc' = "file_prompt"
            /\ out' = "file_list"
            /\ exc' = "none"
            /\ effects' = effects \cup {"list"}
    /\ UNCHANGED <<api_key, current_dir, embedding_service, app, store,
                   maxStored>>

\* A faulty variant of IsQuit: the comparison without lower()
IsQuitCaseSensitive(s) == Strip(s) = <<"q">>

\* run: `file_path.lower().strip() == 'q'` and `query.lower().strip() == 'q'`
IsQuit(s) == Strip(Lower(s)) = <<"q">>

\* choose_file from its input() on, and run's test of the returned path
FilePrompt ==
    /\ pc = "file_prompt"
    /\ effects' = effects \cup {"prompt"}
    /\ \/ \E raw \in FileInputs :
            LET id == Strip(raw)
                file_name == FilesGet(DirListing, id)
                path == Join(current_dir, file_name)
            IN /\ chosen_id' = id
               /\ IF file_name = None
                  THEN /\ Handler("Exception")
                       /\ UNCHANGED file_path
                  ELSE /\ file_path' = path
                       /\ exc' = "none"
                       /\ IF IsQuit(path)
                          THEN pc' = "exit" /\ out' = "goodbye"
                          ELSE pc' = "get_loader" /\ out' = out
       \/ \E e \in Raised :
            /\ Handler(e)
            /\ UNCHANGED <<chosen_id, file_path>>
    /\ UNCHANGED <<api_key, current_dir, embedding_service, app, store, loader,
                   docs, texts, metadatas, ids, embeddings, query,
                   query_embedding, results, trace, qtrace, maxStored>>

\* A faulty variant of GetLoaderKind: endswith() on the path as given,
\* without lower()
GetLoaderKindCaseSensitive(path) ==
    IF EndsWith(path, <<".", "p", "d", "f">>) THEN "PyPDFLoader"
    ELSE IF EndsWith(path, <<".", "t", "x", "t">>) THEN "TextLoader"
    ELSE "ValueError"

\* DocumentLoaderFactory.get_loader: the loader class for a path, or the
\* ValueError it raises
GetLoaderKind(path) ==
    IF EndsWith(Lower(path), <<".", "p", "d", "f">>) THEN "PyPDFLoader"
    ELSE IF EndsWith(Lower(path), <<".", "t", "x", "t">>) THEN "TextLoader"
    ELSE "ValueError"

\* run: `loader = DocumentLoaderFactory.get_loader(file_path)`
GetLoader ==
    /\ pc = "get_loader"
    /\ trace' = Append(trace, "get_loader")
    /\ IF GetLoaderKind(file_path) = "ValueError"
       THEN /\ Handler("Exception")
            /\ UNCHANGED loader
       ELSE /\ loader' = <<GetLoaderKind(file_path), file_path>>
            /\ pc' = "process"
            /\ exc' = "none"
            /\ out' = out
    /\ UNCHANGED <<api_key, current_dir, embedding_service, app, store,
                   chosen_id, file_path, docs, texts, metadatas, ids,
                   embeddings, query, query_embedding, results, qtrace,
                   effects, maxStored>>

\* What loader.load() and splitter.split_documents may give for a loader:
\* a list of up to MaxChunks chunks, each with its text and its source's
\* metadata
SplitOutputs(ld) ==
    LET path == ld[2] IN
    { [j \in 1..k |-> [page_content |-> <<path, j>>,
                       metadata |-> [source |-> path]]] : k \in 0..MaxChunks }

\* A faulty variant of ProcessIds: numbering from 1
ProcessIdsFromOne(n) == [i \in 1..n |-> <<"d", "o", "c", "_">> \o Str(i)]

\* process: `ids = [f"doc_{i}" for i in range(len(texts))]`
ProcessIds(n) == [i \in 1..n |-> <<"d", "o", "c", "_">> \o Str(i - 1)]

\* run: `texts, metadatas, ids = self.processor.process(loader)`
Process ==
    /\ pc = "process"
    /\ \/ \E ds \in SplitOutputs(loader) :
            /\ docs' = ds
            /\ texts' = [i \in 1..Len(ds) |-> ds[i].page_content]
            /\ metadatas' = [i \in 1..Len(ds) |-> ds[i].metadata]
            /\ ids' = ProcessIds(Len(ds))
            /\ trace' = trace \o <<"load", "split">>
            /\ pc' = "embed_documents"
            /\ exc' = "none"
            /\ out' = out
       \/ \E e \in Raised :
            /\ Handler(e)
            /\ trace' = Append(trace, "load")
            /\ UNCHANGED <<docs, texts, metadatas, ids>>
    /\ UNCHANGED <<api_key, current_dir, embedding_service, app, store,
                   chosen_id, file_path, loader, embeddings, query,
                   query_embedding, results, qtrace, effects, maxStored>>

\* What response.json()["data"] may hold after raise_for_status() passed: a
\* list of items, each with an "embedding"
ResponseData ==
    UNION { [1..m -> [embedding : Vectors]] : m \in 0..MaxChunks }

\* embed_documents: `[item["embedding"] for item in data["data"]]`
EmbeddingsOf(data) == [i \in 1..Len(data) |-> data[i].embedding]

\* run: `embeddings = self.embedding_service.embed_documents(texts)`
EmbedDocuments ==
    /\ pc = "embed_documents"
    /\ trace' = Append(trace, "embed_documents")
    /\ effects' = effects \cup {"net"}
    /\ \/ \E data \in ResponseData :
            /\ embeddings' = EmbeddingsOf(data)
            /\ pc' = "add_documents"
            /\ exc' = "none"
            /\ out' = out
       \/ \E e \in Raised :
            /\ Handler(e)
            /\ UNCHANGED embeddings
    /\ UNCHANGED <<api_key, current_dir, embedding_service, app, store,
                   chosen_id, file_path, loader, docs, texts, metadatas, ids,
                   query, query_embedding, results, qtrace, maxStored>>

\* the ids the collection holds
StoreIds(st) == {r.id : r \in st}

\* add_documents: one record per index of the four parallel lists
NewRecords(ts, ms, is, es) ==
    { [id |-> is[i], document |-> ts[i], metadata |-> ms[i],
       embedding |-> es[i]] : i \in 1..Len(is) }

\* A faulty variant of StoreMerge: a collection created anew for each
\* ingestion
StoreReplace(st, new, policy) == new

\* collection.add on a collection that is never cleared: a record whose id
\* the collection holds is skipped ("ignore") or replaces the old one
\* ("overwrite"), as the collection's own policy has it
StoreMerge(st, new, policy) ==
    IF policy = "ignore"
    THEN st \cup {r \in new : r.id \notin StoreIds(st)}
    ELSE {r \in st : r.id \notin StoreIds(new)} \cup new

\* for the history variable maxStored
Max(a, b) == IF a >= b THEN a ELSE b

Min(a, b) == IF a <= b THEN a ELSE b

\* run: `self.store.add_documents(texts, metadatas, ids, embeddings)` and the
\* success message.  The collection takes the call only when the four lists
\* are equally long; it may reject any call.
AddDocuments ==
    /\ pc = "add_documents"
    /\ trace' = Append(trace, "add_documents")
    /\ effects' = effects \cup {"store"}
    /\ \/ /\ Len(texts) = Len(embeddings)
          /\ Len(metadatas) = Len(embeddings)
          /\ Len(ids) = Len(embeddings)
          /\ \E policy \in {"ignore", "overwrite"} :
                store' = StoreMerge(store,
                            NewRecords(texts, metadatas, ids, embeddings),
                            policy)
          /\ maxStored' = Max(maxStored, Len(ids))
          /\ pc' = "get_query"
          /\ out' = "success"
          /\ exc' = "none"
          /\ NoLocals
       \/ \E e \in Raised :
            /\ Handler(e)
            /\ UNCHANGED <<store, maxStored, chosen_id, file_path, loader,
                           docs, texts, metadatas, ids, embeddings, query,
                           query_embedding, results>>
    /\ UNCHANGED <<api_key, current_dir, embedding_service, app, qtrace>>

\* get_query, and run's `query.lower().strip() == 'q'`
GetQuery ==
    /\ pc = "get_query"
    /\ effects' = effects \cup {"prompt"}
    /\ qtrace' = <<>>
    /\ \/ \E raw \in QueryInputs :
            /\ query' = Strip(raw)
            /\ exc' = "none"
            /\ IF IsQuit(Strip(raw))
               THEN pc' = "run_top" /\ out' = "done_doc"
               ELSE pc' = "embed_query" /\ out' = out
       \/ \E e \in Raised :
            /\ Handler(e)
            /\ UNCHANGED query
    /\ UNCHANGED <<api_key, current_dir, embedding_service, app, store,
                   chosen_id, file_path, loader, docs, texts, metadatas, ids,
                   embeddings, query_embedding, results, trace, maxStored>>

\* run: `query_embedding = self.embedding_service.embed_query(query)`;
\* data["data"][0] raises on an empty list
EmbedQuery ==
    /\ pc = "embed_query"
    /\ qtrace' = Append(qtrace, "embed_query")
    /\ effects' = effects \cup {"net"}
    /\ \/ \E data \in ResponseData :
            IF Len(data) = 0
            THEN /\ Handler("Exception")
                 /\ UNCHANGED query_embedding
            ELSE /\ query_embedding' = data[1].embedding
                 /\ pc' = "query_documents"
                 /\ exc' = "none"
                 /\ out' = out
       \/ \E e \in Raised :
            /\ Handler(e)
            /\ UNCHANGED query_embedding
    /\ UNCHANGED <<api_key, current_dir, embedding_service, app, store,
                   chosen_id, file_path, loader, docs, texts, metadatas, ids,
                   embeddings, query, results, trace, maxStored>>

\* query_documents: `n_results: int = 3`
N_RESULTS == 3

\* What collection.query may return: the texts of up to n_results records
\* the collection holds, in the order of its ranking
QueryResults(st, n) ==
    LET m == Min(n, Cardinality(st))
    IN { [i \in 1..m |-> f[i].document] :
           f \in {g \in [1..m -> st] : \A i, j \in 1..m : g[i] = g[j] => i = j} }

\* run: `results = self.store.query_documents(query_embedding)`
QueryDocuments ==
    /\ pc = "query_documents"
    /\ qtrace' = Append(qtrace, "query_documents")
    /\ effects' = effects \cup {"store"}
    /\ \/ \E rs \in QueryResults(store, N_RESULTS) :
            /\ results' = [documents |-> <<rs>>]
            /\ pc' = "display_results"
            /\ exc' = "none"
            /\ out' = out
       \/ \E e \in Raised :
            /\ Handler(e)
            /\ UNCHANGED results
    /\ UNCHANGED <<api_key, current_dir, embedding_service, app, store,
                   chosen_id, file_path, loader, docs, texts, metadatas, ids,
                   embeddings, query, query_embedding, trace, maxStored>>

\* run: `UserInterface.display_results(results)`, then the inner loop again
\* (query_embedding and results are dead from here on)
DisplayResults ==
    /\ pc = "display_results"
    /\ qtrace' = Append(qtrace, "display_results")
    /\ out' = "results"
    /\ pc' = "get_query"
    /\ exc' = "none"
    /\ query_embedding' = None
    /\ results' = None
    /\ UNCHANGED <<api_key, current_dir, embedding_service, app, store,
                   chosen_id, file_path, loader, docs, texts, metadatas, ids,
                   embeddings, query, trace, effects, maxStored>>

Next ==
    \/ Main
    \/ NewSession
    \/ FilePrompt
    \/ GetLoader
    \/ Process
    \/ EmbedDocuments
    \/ AddDocuments
    \/ GetQuery
    \/ EmbedQuery
    \/ QueryDocuments
    \/ DisplayResults

Spec == Init /\ [][Next]_vars
-----------------------------------------------------------------------------
(* Helpers of the properties *)

Range(s) == {s[i] : i \in 1..Len(s)}

IsPrefix(s, t) == Len(s) <= Len(t) /\ SubSeq(t, 1, Len(s)) = s

\* The extension of a path: its last component from that component's last
\* dot on, empty when the component has no dot
Ext(path) ==
    LET dots == {i \in 1..Len(path) : path[i] = "."}
        slashes == {i \in 1..Len(path) : path[i] = "/"}
        lastDot == CHOOSE i \in dots : \A j \in dots : j <= i
    IN IF dots = {} \/ (\E j \in slashes : j > lastDot) THEN <<>>
       ELSE SubSeq(path, lastDot, Len(path))

IngestOrder ==
    <<"choose_file", "get_loader", "load", "split", "embed_documents",
      "add_documents">>

QueryOrder == <<"embed_query", "query_documents", "display_results">>

QueryPcs == {"get_query", "embed_query", "query_documents", "display_results"}

AnswerPcs == {"embed_query", "query_documents", "display_results"}

AfterAnswerStep(p) ==
    CASE p = "embed_query" -> "query_documents"
      [] p = "query_documents" -> "display_results"
      [] p = "display_results" -> "get_query"

-----------------------------------------------------------------------------
(* C1 *)

\* C1: when the user types q at the file-choice prompt, run prints the
\* goodbye message and leaves the outer loop, and that iteration runs no
\* ingestion step.
C1_QuitAtFilePrompt ==
    chosen_id = <<"q">> =>
        /\ pc = "exit"
        /\ out = "goodbye"
        /\ trace = <<"choose_file">>

(* C2 *)

\* C2, as amended: an exception derived from Exception that a step of an
\* outer-loop iteration raises is caught at the loop boundary and printed,
\* and run is at the top of the loop again; run is left only by the q break
\* or by an exception outside Exception (KeyboardInterrupt, SystemExit).
C2_CaughtAtBoundary ==
    /\ exc = "Exception" => pc = "run_top" /\ out = "error"
    /\ pc = "propagated" => exc = "BaseException"
    /\ pc = "exit" => exc = "none" /\ out = "goodbye"
    /\ exc = "BaseException" => pc = "propagated"

\* C2, witness: an exception raised by embed_query in the inner loop was
\* caught and printed, and run is at the top of the outer loop.
C2_Witness ==
    /\ exc = "Exception"
    /\ pc = "run_top"
    /\ out = "error"
    /\ qtrace = <<"embed_query">>

\* C2, as stated: every exception raised in an iteration is caught and
\* printed and the loop goes on, and run ends only through the q break.
C2_Original ==
    /\ exc # "none" => pc = "run_top" /\ out = "error"
    /\ pc # "propagated"

(* C3 *)

\* C3: with the credential variable unset or empty, main aborts before the
\* embedding client and the controller are constructed: nothing is listed,
\* prompted, sent or stored, and nothing is printed.
C3_NoCredentialNoStart ==
    (api_key = None \/ api_key = <<>>) =>
        /\ pc \in {"main", "aborted"}
        /\ embedding_service = None
        /\ app = None
        /\ effects = {}
        /\ out = "none"

\* C3, witness: main has aborted on an empty credential.
C3_Witness == pc = "aborted" /\ api_key = <<>>

(* C4 *)

\* C4: once get_loader was called on a path, the loader is the PDF loader
\* when the path's extension is .pdf in any letter case and the text loader
\* when it is .txt in any letter case; for any other path no loader exists,
\* the error is printed, the iteration made no call after get_loader (no
\* load, split, embedding or store insert) and run is at the top of the loop.
C4_LoaderByExtension ==
    (file_path # None /\ Len(trace) >= 2) =>
        LET ext == Lower(Ext(file_path))
        IN CASE ext = <<".", "p", "d", "f">> ->
                    loader = <<"PyPDFLoader", file_path>>
             [] ext = <<".", "t", "x", "t">> ->
                    loader = <<"TextLoader", file_path>>
             [] OTHER ->
                    /\ loader = None
                    /\ pc = "run_top"
                    /\ exc = "Exception"
                    /\ out = "error"
                    /\ trace = <<"choose_file", "get_loader">>

\* C4, witness: the .docx file was chosen and refused.
C4_Witness ==
    /\ file_path = <<"/", "a", "/", "c", ".", "d", "o", "c", "x">>
    /\ trace = <<"choose_file", "get_loader">>
    /\ pc = "run_top"
    /\ out = "error"

(* C5 *)

\* C5: when process has returned, texts, metadatas and ids are as long as
\* the splitter's output, index by index the chunk's text and metadata, and
\* the ids are doc_0, doc_1, ... in split order without gap or repeat.
C5_ParallelIds ==
    pc = "embed_documents" =>
        /\ Len(texts) = Len(docs)
        /\ Len(metadatas) = Len(docs)
        /\ Len(ids) = Len(docs)
        /\ \A i \in 1..Len(docs) :
              /\ texts[i] = docs[i].page_content
              /\ metadatas[i] = docs[i].metadata
              /\ ids[i] = <<"d", "o", "c", "_">> \o Str(i - 1)
        /\ \A i, j \in 1..Len(ids) : ids[i] = ids[j] => i = j

\* C5, witness: process returned at least two chunks.
C5_Witness == pc = "embed_documents" /\ Len(ids) >= 2 /\ Len(docs) >= 2

(* C7 *)

\* C7: embed_documents returns as many vectors as it was given texts (a
\* non-empty list), so add_documents is called with four sequences of equal
\* length.
C7_EqualLengths ==
    (pc = "add_documents" /\ Len(texts) >= 1) =>
        /\ Len(embeddings) = Len(texts)
        /\ Len(metadatas) = Len(texts)
        /\ Len(ids) = Len(texts)

(* C8 *)

\* C8: the ingest calls of an iteration are made in the order choose_file,
\* get_loader, load, split, embed_documents, add_documents; the query prompt
\* is reached from outside the query loop only by add_documents returning;
\* and when loader selection, splitting or embedding raises, add_documents
\* is not called, the store is unchanged and run does not enter the query
\* loop.
C8_IngestOrder ==
    /\ [](/\ IsPrefix(trace, IngestOrder)
          /\ pc \in QueryPcs => trace = IngestOrder)
    /\ [][/\ (pc \notin QueryPcs /\ pc' = "get_query") =>
                /\ pc = "add_documents"
                /\ exc' = "none"
                /\ out' = "success"
                /\ trace' = IngestOrder
          /\ (pc \in {"get_loader", "process", "embed_documents"}
                /\ exc' # "none") =>
                /\ store' = store
                /\ "add_documents" \notin Range(trace')
                /\ pc' \in {"run_top", "propagated"}]_vars

\* C8, witness: embed_documents raised in an iteration that began with a
\* non-empty store; add_documents was not called.
C8_Witness ==
    /\ pc = "run_top"
    /\ exc = "Exception"
    /\ trace = <<"choose_file", "get_loader", "load", "split",
                 "embed_documents">>
    /\ store # {}

(* C9 *)

\* C9, as amended: a query equal to q in any letter case returns to the top
\* of the outer loop with no embedding call and no store query; any other
\* query, the empty string included, causes one embed_query call and, while
\* no step raises, then one store query, then one display, then the query
\* prompt again; a step that raises ends the query loop with the remaining
\* steps skipped; no query step changes the store.
C9_QueryLoop ==
    /\ [](/\ IsPrefix(qtrace, QueryOrder)
          /\ (query # None /\ Lower(query) = <<"q">>) =>
                pc = "run_top" /\ qtrace = <<>> /\ out = "done_doc"
          /\ pc = "embed_query" => query # None /\ qtrace = <<>>
          /\ pc = "query_documents" => qtrace = <<"embed_query">>
          /\ pc = "display_results" =>
                qtrace = <<"embed_query", "query_documents">>
          /\ (pc = "get_query" /\ query # None) =>
                qtrace = QueryOrder /\ out = "results")
    /\ [][/\ pc \in QueryPcs => store' = store
          /\ (pc \in AnswerPcs /\ exc' = "none") => pc' = AfterAnswerStep(pc)
          /\ (pc \in AnswerPcs /\ exc' # "none") =>
                pc' \in {"run_top", "propagated"}]_vars

\* C9, witness: the empty query was embedded, looked up and displayed, and
\* the query prompt is shown again.
C9_Witness ==
    /\ pc = "get_query"
    /\ query = <<>>
    /\ qtrace = QueryOrder
    /\ out = "results"

\* C9, as stated: every query other than q is followed by embed_query, then
\* the store query, then the display, then the query prompt again.
C9_Original ==
    [][(pc \in AnswerPcs) => (pc' = AfterAnswerStep(pc))]_vars

(* C10 *)

\* C10: the store is never cleared, and every ingestion numbers its chunks
\* from doc_0: when add_documents is called after an earlier ingestion
\* stored k1 chunks, the first min(k1, k2) of its k2 ids are doc_0 .. and
\* are ids the store already holds.
C10_IdsCollide ==
    /\ [](pc = "add_documents" =>
            \A j \in 1..Min(maxStored, Len(ids)) :
                /\ ids[j] = <<"d", "o", "c", "_">> \o Str(j - 1)
                /\ ids[j] \in StoreIds(store))
    /\ [][StoreIds(store) \subseteq StoreIds(store')]_vars

\* C10, witness: add_documents is about to be called with two ids the store
\* holds from an earlier ingestion.
C10_Witness ==
    /\ pc = "add_documents"
    /\ maxStored >= 2
    /\ Len(ids) >= 2
    /\ ids[1] \in StoreIds(store)
    /\ ids[2] \in StoreIds(store)
====
